---------------------------- MODULE Spec2Model ----------------------------
(***************************************************************************)
(* A model of github.com/lestrrat-go/realip (realip.go): the Builder, the  *)
(* Handler it builds, and Handler.ServeHTTP with trustedIP and             *)
(* realIPFromXFF, stepped at the granularity of the cache lock.            *)
(*                                                                         *)
(* Strings are sequences of one-character strings, so that TrimSpace,      *)
(* ToLower, Split, SplitHostPort, ParseIP and IP.String are computed on    *)
(* the characters. An IP is a tuple of four bytes; NilIP is Go's nil IP.   *)
(***************************************************************************)
EXTENDS Integers, Sequences, FiniteSets, TLC

(***************************************************************************)
(* Bounds of the model.                                                    *)
(***************************************************************************)
\* longest trusted-range list of the Handler that is served
MaxTrusted == 2
\* longest trusted-range list in the builder-only specification
MaxBuilderTrusted == 1
\* longest generated X-Forwarded-For chain (extra chains are listed)
MaxChain == 2

(***************************************************************************)
(* Characters and the standard-library string functions the code calls.   *)
(***************************************************************************)
UpperChars == <<"A","B","C","D","E","F","G","H","I","J","K","L","M",
                "N","O","P","Q","R","S","T","U","V","W","X","Y","Z">>
LowerChars == <<"a","b","c","d","e","f","g","h","i","j","k","l","m",
                "n","o","p","q","r","s","t","u","v","w","x","y","z">>
DigitChars == <<"0","1","2","3","4","5","6","7","8","9">>

Range(f) == {f[i] : i \in DOMAIN f}

IsSpace(c) == c \in {" ", "\t"}
IsUpper(c) == c \in Range(UpperChars)
IsLower(c) == c \in Range(LowerChars)
IsDigit(c) == c \in Range(DigitChars)

LowerChar(c) ==
  IF IsUpper(c) THEN LowerChars[CHOOSE i \in DOMAIN UpperChars : UpperChars[i] = c]
  ELSE c
UpperChar(c) ==
  IF IsLower(c) THEN UpperChars[CHOOSE i \in DOMAIN LowerChars : LowerChars[i] = c]
  ELSE c
DigitVal(c) == (CHOOSE i \in DOMAIN DigitChars : DigitChars[i] = c) - 1

\* strings.ToLower
ToLower(s) == [i \in DOMAIN s |-> LowerChar(s[i])]

\* strings.TrimSpace: the string without its leading and trailing white space
TrimSpace(s) ==
  LET keep == {i \in DOMAIN s : ~IsSpace(s[i])}
  IN  IF keep = {} THEN <<>>
      ELSE LET lo == CHOOSE i \in keep : \A j \in keep : i <= j
               hi == CHOOSE i \in keep : \A j \in keep : j <= i
           IN  SubSeq(s, lo, hi)

\* strings.Split(s, sep) for a one-character sep: always at least one field
RECURSIVE Split(_, _)
Split(str, sep) ==
  LET Fields(s) ==
        LET at == {i \in DOMAIN s : s[i] = sep}
        IN  IF at = {} THEN <<s>>
            ELSE LET i == CHOOSE k \in at : \A j \in at : k <= j
                 IN  <<SubSeq(s, 1, i - 1)>> \o Split(SubSeq(s, i + 1, Len(s)), sep)
  IN  \* str is evaluated once and the fields are cut from its value
      CHOOSE fs \in {Fields(s) : s \in {str}} : TRUE

HasPrefix(s, p) == Len(s) >= Len(p) /\ SubSeq(s, 1, Len(p)) = p

\* strconv.Itoa for a byte
Itoa(n) ==
  IF n < 10 THEN <<DigitChars[n + 1]>>
  ELSE IF n < 100 THEN <<DigitChars[(n \div 10) + 1], DigitChars[(n % 10) + 1]>>
  ELSE <<DigitChars[(n \div 100) + 1], DigitChars[((n \div 10) % 10) + 1],
         DigitChars[(n % 10) + 1]>>

(***************************************************************************)
(* package net: IP, IPNet, ParseIP, IP.String, IPNet.Contains,             *)
(* SplitHostPort.                                                          *)
(***************************************************************************)
NilIP == <<>>
NilString == <<"<","n","i","l",">">>
MappedPrefix == <<":",":","f","f","f","f",":">>

\* one decimal field of a dotted quad: 1 to 3 digits, no leading zero, <= 255
FieldOK(f) ==
  /\ Len(f) \in 1..3
  /\ \A i \in DOMAIN f : IsDigit(f[i])
  /\ (Len(f) > 1 => f[1] # "0")
FieldVal(f) ==
  IF Len(f) = 1 THEN DigitVal(f[1])
  ELSE IF Len(f) = 2 THEN 10 * DigitVal(f[1]) + DigitVal(f[2])
  ELSE 100 * DigitVal(f[1]) + 10 * DigitVal(f[2]) + DigitVal(f[3])

ParseIPv4(s) ==
  LET fs == Split(s, ".")
  IN  IF Len(fs) = 4 /\ \A i \in 1..4 : FieldOK(fs[i]) /\ FieldVal(fs[i]) <= 255
      THEN [i \in 1..4 |-> FieldVal(fs[i])]
      ELSE NilIP

\* net.ParseIP: a dotted quad, or an IPv4-mapped IPv6 address ::ffff:a.b.c.d
\* (both give the same IP); every other string of the model's inputs is no
\* address and gives nil
ParseIP(s) ==
  IF HasPrefix(s, MappedPrefix)
  THEN ParseIPv4(SubSeq(s, Len(MappedPrefix) + 1, Len(s)))
  ELSE ParseIPv4(s)

\* net.IP.String: "<nil>" for the nil IP, the dotted quad otherwise
IPString(ip) ==
  IF ip = NilIP THEN NilString
  ELSE Itoa(ip[1]) \o <<".">> \o Itoa(ip[2]) \o <<".">> \o Itoa(ip[3])
       \o <<".">> \o Itoa(ip[4])

Pow2(n) == IF n = 0 THEN 1 ELSE IF n = 1 THEN 2 ELSE IF n = 2 THEN 4
           ELSE IF n = 3 THEN 8 ELSE IF n = 4 THEN 16 ELSE IF n = 5 THEN 32
           ELSE IF n = 6 THEN 64 ELSE IF n = 7 THEN 128 ELSE 256

\* the number of mask bits that fall into byte i (1..4) of a /ones mask
MaskBits(ones, i) ==
  LET left == ones - 8 * (i - 1)
  IN  IF left <= 0 THEN 0 ELSE IF left >= 8 THEN 8 ELSE left

\* net.IPNet.Contains: false for an IP of another length (the nil IP), else
\* byte by byte under the mask
Contains(n, ip) ==
  /\ Len(ip) = Len(n.ip)
  /\ \A i \in 1..4 :
       LET drop == Pow2(8 - MaskBits(n.ones, i))
       IN  (ip[i] \div drop) = (n.ip[i] \div drop)

IndexOf(s, c) ==
  LET at == {i \in DOMAIN s : s[i] = c}
  IN  IF at = {} THEN 0 ELSE CHOOSE i \in at : \A j \in at : i <= j
LastIndexOf(s, c) ==
  LET at == {i \in DOMAIN s : s[i] = c}
  IN  IF at = {} THEN 0 ELSE CHOOSE i \in at : \A j \in at : j <= i

\* net.SplitHostPort, its host result: the empty string on every error
\* (missing port, too many colons, missing or misplaced brackets)
SplitHost(hostport) ==
  LET i == LastIndexOf(hostport, ":")
  IN  IF i = 0 THEN <<>>
      ELSE IF hostport[1] = "["
      THEN LET end == IndexOf(hostport, "]")
           IN  IF end = 0 \/ end + 1 # i THEN <<>>
               ELSE IF IndexOf(SubSeq(hostport, 2, Len(hostport)), "[") # 0
                       \/ IndexOf(SubSeq(hostport, end + 1, Len(hostport)), "]") # 0
               THEN <<>>
               ELSE SubSeq(hostport, 2, end - 1)
      ELSE LET host == SubSeq(hostport, 1, i - 1)
           IN  IF IndexOf(host, ":") # 0
                  \/ IndexOf(hostport, "[") # 0 \/ IndexOf(hostport, "]") # 0
               THEN <<>>
               ELSE host

(***************************************************************************)
(* package net/http: Header, with its canonical keys.                      *)
(***************************************************************************)
IsTokenChar(c) == IsUpper(c) \/ IsLower(c) \/ IsDigit(c) \/ c = "-"

\* textproto.CanonicalMIMEHeaderKey: a key with a character that is no token
\* character is returned unchanged
CanonicalKey(k) ==
  IF \E i \in DOMAIN k : ~IsTokenChar(k[i]) THEN k
  ELSE [i \in DOMAIN k |->
          IF i = 1 \/ k[i - 1] = "-" THEN UpperChar(k[i]) ELSE LowerChar(k[i])]

\* http.Header.Get: the first value of the canonical key, "" when there is none
HeaderGet(hdr, key) ==
  LET k == CanonicalKey(key)
  IN  IF k \in DOMAIN hdr /\ Len(hdr[k]) > 0 THEN hdr[k][1] ELSE <<>>

\* http.Header.Set: the canonical key now has exactly this value
HeaderSet(hdr, key, v) ==
  LET k == CanonicalKey(key)
  IN  [x \in DOMAIN hdr \cup {k} |-> IF x = k THEN <<v>> ELSE hdr[x]]


(***************************************************************************)
(* realip.go: the header names, and the strings and ranges of the model's  *)
(* inputs (those of realip_test.go, and a few malformed ones).             *)
(***************************************************************************)
HeaderXForwardedFor == <<"x","-","f","o","r","w","a","r","d","e","d","-","f","o","r">>
HeaderXRealIP == <<"x","-","r","e","a","l","-","i","p">>
headerForwarded == <<"f","o","r","w","a","r","d","e","d">>

\* arguments of SourceHeader and DestinationHeader
NameForwarded == <<"F","o","r","w","a","r","d","e","d">>
NameForwardedPadded == <<" ","F","O","R","W","A","R","D","E","D","\t">>
NameXFF == <<"X","-","F","o","r","w","a","r","d","e","d","-","F","o","r">>
NameXFFPadded == <<" ","X","-","F","o","r","w","a","r","d","e","d","-","F","o","r"," ">>
NameXRealIP == <<"X","-","R","e","a","l","-","I","P">>
NameXClientIP == <<"X","-","C","l","i","e","n","t","-","I","P">>

\* addresses
Addr127 == <<"1","2","7",".","0",".","0",".","1">>
Addr1111 == <<"1",".","1",".","1",".","1">>
Addr6666 == <<"6",".","6",".","6",".","6">>
Addr7777 == <<"7",".","7",".","7",".","7">>
Addr192 == <<"1","9","2",".","1","6","8",".","0",".","1">>
Addr192Mapped == <<":",":","f","f","f","f",":","1","9","2",".","1","6","8",".","0",".","1">>
AddrBogus == <<"b","o","g","u","s">>

\* the ranges of realip_test.go: 127.0.0.1/32 and 192.168.0.0/16
NetLoopback == [ip |-> <<127, 0, 0, 1>>, ones |-> 32]
NetPrivate == [ip |-> <<192, 168, 0, 0>>, ones |-> 16]
Nets == {NetLoopback, NetPrivate}

\* r.RemoteAddr: host:port, a host without a port, an unparseable host
RemoteAddrs ==
  { Addr127 \o <<":","8","0">>, Addr127, AddrBogus \o <<":","8","0">> }

\* the entries chains are generated from: in no range of Nets, in NetPrivate,
\* no address
ChainEntries == {Addr1111, Addr192, AddrBogus}

RECURSIVE Join(_)
Join(es) ==
  IF Len(es) = 1 THEN es[1] ELSE es[1] \o <<","," ">> \o Join(Tail(es))

RECURSIVE Tuples(_, _)
Tuples(S, n) ==
  IF n = 0 THEN {<<>>} ELSE {<<x>> \o t : x \in S, t \in Tuples(S, n - 1)}

\* X-Forwarded-For values: every chain of 1..MaxChain entries joined by ", ",
\* and chains with other spacing, with another spelling of one address, with
\* an empty last or first entry, and the empty value
ExtraChains ==
  { <<" ">> \o Addr1111 \o <<" ",",">> \o Addr192 \o <<" "," ">>,
    Addr1111 \o <<","," ">> \o Addr192Mapped \o <<","," ">> \o Addr192,
    Addr192 \o <<","," ">>,
    <<",">> \o Addr192,
    <<>> }
Chains ==
  UNION {{Join(t) : t \in Tuples(ChainEntries, n)} : n \in 1..MaxChain}
    \cup ExtraChains

CanonXFF == CanonicalKey(HeaderXForwardedFor)
CanonXRealIP == CanonicalKey(HeaderXRealIP)
EmptyHeader == [k \in {} |-> <<>>]
OneHeader(k, v) == [x \in {k} |-> <<v>>]

\* r.Header as the server hands it over (canonical keys): no header, one
\* X-Forwarded-For, one or two X-Real-Ip values, or both headers
Headers ==
  {EmptyHeader}
    \cup {OneHeader(CanonXFF, c) : c \in Chains}
    \cup {OneHeader(CanonXRealIP, v) : v \in {Addr6666, Addr7777, <<>>}}
    \cup {[x \in {CanonXRealIP} |-> <<Addr6666 \o <<","," ">> \o Addr7777, Addr1111>>]}
    \cup {[x \in {CanonXFF, CanonXRealIP} |->
             IF x = CanonXFF THEN <<c>> ELSE <<Addr6666>>] : c \in {<<>>, Addr192}}

NextHandlers == {"n1", "n2"}

(***************************************************************************)
(* The state.                                                              *)
(*   heap      the objects, by address 1..Len(heap): the Handlers, and     *)
(*             for each Handler its cache map, its RWMutex and, once       *)
(*             TrustedIP has appended to it, the array of its trusted      *)
(*             slice; a Handler holds their addresses                      *)
(*   builder   the Builder: h (address of its Handler) and err             *)
(*   returned  the addresses Build has returned to the caller              *)
(*   wrappers  the http.Handlers that Wrap has returned: each is the       *)
(*             Handler h itself, kept here with the next handler that      *)
(*             call of Wrap was given                                      *)
(*   lastBuild what the latest Build call returned: h (0 is nil) and err,  *)
(*             and hist as that call found it                              *)
(*   hist      the calls since the builder was last reset: whether         *)
(*             SourceHeader was called with a name that normalises to      *)
(*             "forwarded" since the latest Build (fwdSinceBuild) and      *)
(*             since the latest Build or Reset (fwdSinceReset), and        *)
(*             the latest call that found b.err set and returned (ignored) *)
(*   phase     "config" while the harness builds and wraps, "serve" once   *)
(*             it serves requests                                          *)
(*   pc, req, loc, obs   per goroutine serving a request: where it is in   *)
(*             ServeHTTP, the request, the local variables (with the       *)
(*             number of trustedIP calls and of cache accesses it made),   *)
(*             and what the next handler was called with                   *)
(***************************************************************************)
VARIABLES heap, builder, returned, wrappers, lastBuild, hist, phase,
          pc, req, loc, obs

vars ==
  <<heap, builder, returned, wrappers, lastBuild, hist, phase, pc, req, loc, obs>>
builderVars == <<heap, builder, returned, wrappers, lastBuild, hist>>
serveVars == <<pc, req, loc, obs>>

NoErr == <<>>
NoCall == <<>>
NoHist == [fwdSinceBuild |-> FALSE, fwdSinceReset |-> FALSE, ignored |-> NoCall]
NilHandler == 0
NoNext == "nil"

NilSlice == 0

\* realip.go 63-68: the Handler that Reset allocates at address at, with the
\* map and the mutex allocated for it behind it; trusted and next are zero
\* values, the map is empty and the lock is free (no reader, no writer)
FreshHandler(at) ==
  [ trusted |-> NilSlice, srcHeader |-> HeaderXRealIP, dstHeader |-> HeaderXRealIP,
    recursive |-> FALSE, next |-> NoNext, cache |-> at + 1, muCache |-> at + 2 ]
EmptyCache == [keys |-> {}]
FreeMutex == [readers |-> {}, writer |-> 0]
FreshObjects(at) == <<FreshHandler(at), EmptyCache, FreeMutex>>

\* the ranges of the Handler at address h: the elements of its trusted slice
TrustedOf(h) ==
  IF heap[h].trusted = NilSlice THEN <<>> ELSE heap[heap[h].trusted].elems

\* the Handler at address h as its methods read it: its fields, with the
\* contents of its trusted slice and of its cache, and the state of its lock
Deref(h) ==
  [ trusted |-> TrustedOf(h), srcHeader |-> heap[h].srcHeader,
    dstHeader |-> heap[h].dstHeader, recursive |-> heap[h].recursive,
    next |-> heap[h].next, cache |-> heap[heap[h].cache].keys,
    readers |-> heap[heap[h].muCache].readers,
    writer |-> heap[heap[h].muCache].writer ]

Procs == DOMAIN pc

NoRequest == [h |-> NilHandler, remoteAddr |-> <<>>, header |-> EmptyHeader]
NoLocals ==
  [ header |-> EmptyHeader, rawRemoteIP |-> <<>>, realIP |-> <<>>, cand |-> <<>>,
    xff |-> <<>>, ips |-> <<>>, i |-> 0, ipStr |-> <<>>,
    ip |-> NilIP, ipstr |-> <<>>, cached |-> FALSE, k |-> 0, ret |-> "",
    result |-> FALSE, trustCalls |-> 0, cacheOps |-> 0, xffOps |-> 0 ]
NoObs == [calls |-> 0, next |-> NoNext, dst |-> <<>>]

\* New(): a Builder after its first Reset; no request is being served
InitWith(procs) ==
  /\ heap = FreshObjects(1)
  /\ builder = [h |-> 1, err |-> NoErr]
  /\ returned = {}
  /\ wrappers = {}
  /\ lastBuild = [h |-> NilHandler, err |-> NoErr, hist |-> NoHist]
  /\ hist = NoHist
  /\ phase = "config"
  /\ pc = [g \in procs |-> "idle"]
  /\ req = [g \in procs |-> NoRequest]
  /\ loc = [g \in procs |-> NoLocals]
  /\ obs = [g \in procs |-> NoObs]

Init == InitWith({1})

(***************************************************************************)
(* Builder (realip.go 52-126) and Handler.Wrap (134-137).                  *)
(***************************************************************************)
\* mutant of ResetHeap: the new Handler keeps the map of the old one
ResetHeapSharesCache(keep) ==
  IF keep
  THEN heap \o <<[FreshHandler(Len(heap) + 1) EXCEPT !.cache = heap[builder.h].cache],
                 EmptyCache, FreeMutex>>
  ELSE SubSeq(heap, 1, builder.h - 1) \o FreshObjects(builder.h)

\* Reset's allocation: b.h points to a fresh Handler with a fresh map and a
\* fresh mutex. When the old Handler stays in use (keep: Build hands it to
\* the caller) its objects stay where they are; else nothing refers to it
\* any more, and it, its map, its mutex and its array, which are the last
\* objects allocated, are collected and their addresses used again.
ResetHeap(keep) ==
  IF keep THEN heap \o FreshObjects(Len(heap) + 1)
  ELSE SubSeq(heap, 1, builder.h - 1) \o FreshObjects(builder.h)
ResetBuilder(keep) ==
  [ h |-> IF keep THEN Len(heap) + 1 ELSE builder.h,
    err |-> NoErr ]

Reset ==
  /\ phase = "config"
  /\ heap' = ResetHeap(builder.h \in returned)
  /\ builder' = ResetBuilder(builder.h \in returned)
  /\ hist' = [hist EXCEPT !.fwdSinceReset = FALSE, !.ignored = NoCall]
  /\ UNCHANGED <<returned, wrappers, lastBuild, phase, serveVars>>

\* Build: h, err := b.h, b.err; b.Reset(); nil and err if err is set, else h
Build ==
  /\ phase = "config"
  /\ lastBuild' = IF builder.err # NoErr
                  THEN [h |-> NilHandler, err |-> builder.err, hist |-> hist]
                  ELSE [h |-> builder.h, err |-> NoErr, hist |-> hist]
  /\ returned' = IF builder.err # NoErr THEN returned
                 ELSE returned \cup {builder.h}
  /\ heap' = ResetHeap(builder.err = NoErr)
  /\ builder' = ResetBuilder(builder.err = NoErr)
  /\ hist' = NoHist
  /\ UNCHANGED <<wrappers, phase, serveVars>>

Normalised(name) == ToLower(TrimSpace(name))

\* the error SourceHeader records; each errors.New is an error of its own,
\* told apart here by the call that made it
UnsupportedErr(name) == <<"Forwarded header is not supported", name>>

\* mutant of SourceHeader: the name is compared as given, not normalised
SourceHeaderComparesRaw(name) ==
  /\ phase = "config"
  /\ hist' = [ fwdSinceBuild |-> hist.fwdSinceBuild \/ Normalised(name) = headerForwarded,
               fwdSinceReset |-> hist.fwdSinceReset \/ Normalised(name) = headerForwarded,
               ignored |-> IF builder.err # NoErr THEN <<"SourceHeader", name>>
                           ELSE hist.ignored ]
  /\ IF builder.err # NoErr
     THEN UNCHANGED <<heap, builder>>
     ELSE IF name = headerForwarded
     THEN /\ builder' = [builder EXCEPT !.err = UnsupportedErr(name)]
          /\ UNCHANGED heap
     ELSE /\ heap' = [heap EXCEPT ![builder.h].srcHeader = Normalised(name)]
          /\ UNCHANGED builder
  /\ UNCHANGED <<returned, wrappers, lastBuild, phase, serveVars>>

\* mutant of SourceHeader: it does not look at b.err before it acts
SourceHeaderIgnoresErr(name) ==
  /\ phase = "config"
  /\ hist' = [ fwdSinceBuild |-> hist.fwdSinceBuild \/ Normalised(name) = headerForwarded,
               fwdSinceReset |-> hist.fwdSinceReset \/ Normalised(name) = headerForwarded,
               ignored |-> IF builder.err # NoErr THEN <<"SourceHeader", name>>
                           ELSE hist.ignored ]
  /\ IF Normalised(name) = headerForwarded
     THEN /\ builder' = [builder EXCEPT !.err = UnsupportedErr(name)]
          /\ UNCHANGED heap
     ELSE /\ heap' = [heap EXCEPT ![builder.h].srcHeader = Normalised(name)]
          /\ UNCHANGED builder
  /\ UNCHANGED <<returned, wrappers, lastBuild, phase, serveVars>>

SourceHeader(name) ==
  /\ phase = "config"
  /\ hist' = [ fwdSinceBuild |-> hist.fwdSinceBuild \/ Normalised(name) = headerForwarded,
               fwdSinceReset |-> hist.fwdSinceReset \/ Normalised(name) = headerForwarded,
               ignored |-> IF builder.err # NoErr THEN <<"SourceHeader", name>>
                           ELSE hist.ignored ]
  /\ IF builder.err # NoErr
     THEN UNCHANGED <<heap, builder>>
     ELSE IF Normalised(name) = headerForwarded
     THEN /\ builder' = [builder EXCEPT !.err = UnsupportedErr(name)]
          /\ UNCHANGED heap
     ELSE /\ heap' = [heap EXCEPT ![builder.h].srcHeader = Normalised(name)]
          /\ UNCHANGED builder
  /\ UNCHANGED <<returned, wrappers, lastBuild, phase, serveVars>>

DestinationHeader(header) ==
  /\ phase = "config"
  /\ IF builder.err # NoErr
     THEN UNCHANGED heap
     ELSE heap' = [heap EXCEPT ![builder.h].dstHeader = ToLower(header)]
  /\ hist' = IF builder.err # NoErr
             THEN [hist EXCEPT !.ignored = <<"DestinationHeader", header>>]
             ELSE hist
  /\ UNCHANGED <<builder, returned, wrappers, lastBuild, phase, serveVars>>

\* append(b.h.trusted, trusted...): appending nothing returns the slice as
\* it is; appending to the nil slice allocates an array; appending to an
\* array extends it (where append moves the elements to a larger array the
\* old one is left to the collector, and the array keeps its address here)
AppendTrusted(trusted) ==
  IF trusted = <<>> THEN heap
  ELSE IF heap[builder.h].trusted = NilSlice
  THEN Append([heap EXCEPT ![builder.h].trusted = Len(heap) + 1],
              [elems |-> trusted])
  ELSE [heap EXCEPT ![heap[builder.h].trusted].elems = @ \o trusted]

\* TrustedIP(trusted...): the ranges are appended in order
TrustedIP(trusted) ==
  /\ phase = "config"
  /\ IF builder.err # NoErr
     THEN UNCHANGED heap
     ELSE heap' = AppendTrusted(trusted)
  /\ hist' = IF builder.err # NoErr
             THEN [hist EXCEPT !.ignored = <<"TrustedIP", trusted>>]
             ELSE hist
  /\ UNCHANGED <<builder, returned, wrappers, lastBuild, phase, serveVars>>

Recursive(v) ==
  /\ phase = "config"
  /\ IF builder.err # NoErr
     THEN UNCHANGED heap
     ELSE heap' = [heap EXCEPT ![builder.h].recursive = v]
  /\ hist' = IF builder.err # NoErr
             THEN [hist EXCEPT !.ignored = <<"Recursive", v>>]
             ELSE hist
  /\ UNCHANGED <<builder, returned, wrappers, lastBuild, phase, serveVars>>

\* h.Wrap(next) on a Handler that Build returned: h.next = next; return h
Wrap(h, next) ==
  /\ phase = "config"
  /\ h \in returned
  /\ heap' = [heap EXCEPT ![h].next = next]
  /\ wrappers' = wrappers \cup {[h |-> h, next |-> next]}
  /\ UNCHANGED <<builder, returned, lastBuild, hist, phase, serveVars>>

\* the SourceHeader names, DestinationHeader names and TrustedIP argument
\* lists the builder-only specification draws from
BuilderSrcNames == {NameForwarded, NameForwardedPadded, NameXFFPadded, NameXRealIP}
BuilderDstNames == {NameXClientIP}
BuilderRanges == {<<NetLoopback>>}

\* the builder alone: every sequence of builder calls, Reset and failing
\* Builds included, in which the builder hands out one Handler (after a
\* Build the builder is as New() left it, so a second Handler is built as
\* the first was)
NextBuilder ==
  \/ \E name \in BuilderSrcNames : SourceHeader(name)
  \/ \E header \in BuilderDstNames : DestinationHeader(header)
  \/ \E trusted \in BuilderRanges :
       /\ Len(TrustedOf(builder.h)) + Len(trusted) <= MaxBuilderTrusted
       /\ TrustedIP(trusted)
  \/ \E v \in BOOLEAN : Recursive(v)
  \/ Reset
  \/ (returned = {} \/ builder.err # NoErr) /\ Build

SpecBuilder == Init /\ [][NextBuilder]_vars

(***************************************************************************)
(* Handler.trustedIP (realip.go 166-189), called by goroutine g with       *)
(* loc[g].ip; it returns to loc[g].ret with loc[g].result.                 *)
(***************************************************************************)
\* the Handler that goroutine g serves, as ServeHTTP reads it
Served(g) == Deref(req[g].h)

CallTrustedIP(l, ip, ret) ==
  [l EXCEPT !.ip = ip, !.ret = ret, !.trustCalls = @ + 1]
ReturnTrustedIP(l, v) == [l EXCEPT !.result = v]

\* mutant of TrustedEnter: no early return when no range is configured
TrustedEnterNoShortcut(g) ==
  /\ pc[g] = "t_enter"
  /\ loc' = [loc EXCEPT ![g].ipstr = IPString(loc[g].ip)]
  /\ pc' = [pc EXCEPT ![g] = "t_rlock"]
  /\ UNCHANGED <<builderVars, phase, req, obs>>

\* mutant of TrustedEnter: every address gets the same cache key
TrustedEnterOneKey(g) ==
  /\ pc[g] = "t_enter"
  /\ IF Len(Served(g).trusted) = 0
     THEN /\ loc' = [loc EXCEPT ![g] = ReturnTrustedIP(@, TRUE)]
          /\ pc' = [pc EXCEPT ![g] = loc[g].ret]
     ELSE /\ loc' = [loc EXCEPT ![g].ipstr = NilString]
          /\ pc' = [pc EXCEPT ![g] = "t_rlock"]
  /\ UNCHANGED <<builderVars, phase, req, obs>>

\* 167-172: no range, trust everybody; else ipstr := ip.String()
TrustedEnter(g) ==
  /\ pc[g] = "t_enter"
  /\ IF Len(Served(g).trusted) = 0
     THEN /\ loc' = [loc EXCEPT ![g] = ReturnTrustedIP(@, TRUE)]
          /\ pc' = [pc EXCEPT ![g] = loc[g].ret]
     ELSE /\ loc' = [loc EXCEPT ![g].ipstr = IPString(loc[g].ip)]
          /\ pc' = [pc EXCEPT ![g] = "t_rlock"]
  /\ UNCHANGED <<builderVars, phase, req, obs>>

\* 173: h.muCache.RLock()
CacheRLock(g) ==
  /\ pc[g] = "t_rlock"
  /\ Served(g).writer = 0
  /\ heap' = [heap EXCEPT ![heap[req[g].h].muCache].readers = @ \cup {g}]
  /\ pc' = [pc EXCEPT ![g] = "t_read"]
  /\ UNCHANGED <<builder, returned, wrappers, lastBuild, hist, phase, req, loc, obs>>

\* 174: _, cached := h.cache[ipstr]
CacheRead(g) ==
  /\ pc[g] = "t_read"
  /\ loc' = [loc EXCEPT ![g].cached = loc[g].ipstr \in Served(g).cache,
                        ![g].cacheOps = @ + 1]
  /\ pc' = [pc EXCEPT ![g] = "t_runlock"]
  /\ UNCHANGED <<builderVars, phase, req, obs>>

\* mutant of CacheRUnlock: a cache hit returns with the read lock held
CacheRUnlockLeaksOnHit(g) ==
  /\ pc[g] = "t_runlock"
  /\ IF loc[g].cached
     THEN /\ loc' = [loc EXCEPT ![g] = ReturnTrustedIP(@, TRUE)]
          /\ pc' = [pc EXCEPT ![g] = loc[g].ret]
          /\ UNCHANGED heap
     ELSE /\ loc' = [loc EXCEPT ![g].k = 1]
          /\ pc' = [pc EXCEPT ![g] = "t_scan"]
          /\ heap' = [heap EXCEPT ![heap[req[g].h].muCache].readers = @ \ {g}]
  /\ UNCHANGED <<builder, returned, wrappers, lastBuild, hist, phase, req, obs>>

\* 175-178: h.muCache.RUnlock(); a cached address is trusted
CacheRUnlock(g) ==
  /\ pc[g] = "t_runlock"
  /\ heap' = [heap EXCEPT ![heap[req[g].h].muCache].readers = @ \ {g}]
  /\ IF loc[g].cached
     THEN /\ loc' = [loc EXCEPT ![g] = ReturnTrustedIP(@, TRUE)]
          /\ pc' = [pc EXCEPT ![g] = loc[g].ret]
     ELSE /\ loc' = [loc EXCEPT ![g].k = 1]
          /\ pc' = [pc EXCEPT ![g] = "t_scan"]
  /\ UNCHANGED <<builder, returned, wrappers, lastBuild, hist, phase, req, obs>>

\* mutant of ScanRange: an address that no range contains is cached as well
ScanRangeCachesAll(g) ==
  /\ pc[g] = "t_scan"
  /\ IF loc[g].k > Len(Served(g).trusted)
     THEN /\ pc' = [pc EXCEPT ![g] = "t_lock"]
          /\ UNCHANGED loc
     ELSE IF Contains(Served(g).trusted[loc[g].k], loc[g].ip)
     THEN /\ pc' = [pc EXCEPT ![g] = "t_lock"]
          /\ UNCHANGED loc
     ELSE /\ loc' = [loc EXCEPT ![g].k = @ + 1]
          /\ UNCHANGED pc
  /\ UNCHANGED <<builderVars, phase, req, obs>>

\* 180-188: one round of the loop over the ranges, false after the last
ScanRange(g) ==
  /\ pc[g] = "t_scan"
  /\ IF loc[g].k > Len(Served(g).trusted)
     THEN /\ loc' = [loc EXCEPT ![g] = ReturnTrustedIP(@, FALSE)]
          /\ pc' = [pc EXCEPT ![g] = loc[g].ret]
     ELSE IF Contains(Served(g).trusted[loc[g].k], loc[g].ip)
     THEN /\ pc' = [pc EXCEPT ![g] = "t_lock"]
          /\ UNCHANGED loc
     ELSE /\ loc' = [loc EXCEPT ![g].k = @ + 1]
          /\ UNCHANGED pc
  /\ UNCHANGED <<builderVars, phase, req, obs>>

\* mutant of CacheLock: the writer does not wait for the readers to leave
CacheLockIgnoresReaders(g) ==
  /\ pc[g] = "t_lock"
  /\ Served(g).writer = 0
  /\ heap' = [heap EXCEPT ![heap[req[g].h].muCache].writer = g]
  /\ pc' = [pc EXCEPT ![g] = "t_write"]
  /\ UNCHANGED <<builder, returned, wrappers, lastBuild, hist, phase, req, loc, obs>>

\* 182: h.muCache.Lock()
CacheLock(g) ==
  /\ pc[g] = "t_lock"
  /\ Served(g).writer = 0
  /\ Served(g).readers = {}
  /\ heap' = [heap EXCEPT ![heap[req[g].h].muCache].writer = g]
  /\ pc' = [pc EXCEPT ![g] = "t_write"]
  /\ UNCHANGED <<builder, returned, wrappers, lastBuild, hist, phase, req, loc, obs>>

\* mutant of CacheWrite: the insertion drops the other keys
CacheWriteReplaces(g) ==
  /\ pc[g] = "t_write"
  /\ heap' = [heap EXCEPT ![heap[req[g].h].cache].keys = {loc[g].ipstr}]
  /\ loc' = [loc EXCEPT ![g].cacheOps = @ + 1]
  /\ pc' = [pc EXCEPT ![g] = "t_unlock"]
  /\ UNCHANGED <<builder, returned, wrappers, lastBuild, hist, phase, req, obs>>

\* 183: h.cache[ipstr] = struct{}{}
CacheWrite(g) ==
  /\ pc[g] = "t_write"
  /\ heap' = [heap EXCEPT ![heap[req[g].h].cache].keys = @ \cup {loc[g].ipstr}]
  /\ loc' = [loc EXCEPT ![g].cacheOps = @ + 1]
  /\ pc' = [pc EXCEPT ![g] = "t_unlock"]
  /\ UNCHANGED <<builder, returned, wrappers, lastBuild, hist, phase, req, obs>>

\* 184-185: h.muCache.Unlock(); return true
CacheUnlock(g) ==
  /\ pc[g] = "t_unlock"
  /\ heap' = [heap EXCEPT ![heap[req[g].h].muCache].writer = 0]
  /\ loc' = [loc EXCEPT ![g] = ReturnTrustedIP(@, TRUE)]
  /\ pc' = [pc EXCEPT ![g] = loc[g].ret]
  /\ UNCHANGED <<builder, returned, wrappers, lastBuild, hist, phase, req, obs>>

(***************************************************************************)
(* Handler.ServeHTTP (139-164) and Handler.realIPFromXFF (191-208).        *)
(***************************************************************************)
\* the harness starts serving the Handlers it has wrapped:
\* http.Serve(l, h.Wrap(handler))
StartServing ==
  /\ phase = "config"
  /\ returned # {}
  /\ \A h \in returned : heap[h].next # NoNext
  /\ phase' = "serve"
  /\ UNCHANGED <<builderVars, serveVars>>

\* 140-141: a request arrives at Handler h; rawRemoteIP is the host of
\* r.RemoteAddr and trustedIP is called with its parsed form
ServeBegin(g, h, remoteAddr, header) ==
  /\ phase = "serve"
  /\ pc[g] = "idle"
  /\ h \in returned
  /\ req' = [req EXCEPT ![g] = [h |-> h, remoteAddr |-> remoteAddr, header |-> header]]
  /\ loc' = [loc EXCEPT ![g] =
               CallTrustedIP([NoLocals EXCEPT !.header = header,
                                              !.rawRemoteIP = SplitHost(remoteAddr)],
                             ParseIP(SplitHost(remoteAddr)), "peer")]
  /\ obs' = [obs EXCEPT ![g] = NoObs]
  /\ pc' = [pc EXCEPT ![g] = "t_enter"]
  /\ UNCHANGED <<builderVars, phase>>

\* mutant of ServeUntrusted: the client's destination header is left as it
\* came
ServeUntrustedKeepsHeader(g) ==
  /\ pc[g] = "peer"
  /\ ~loc[g].result
  /\ pc' = [pc EXCEPT ![g] = "call_next"]
  /\ UNCHANGED <<builderVars, phase, req, loc, obs>>

\* mutant of ServeUntrusted: it returns without calling the next handler
ServeUntrustedReturns(g) ==
  /\ pc[g] = "peer"
  /\ ~loc[g].result
  /\ loc' = [loc EXCEPT ![g].header =
               IF loc[g].rawRemoteIP # <<>>
               THEN HeaderSet(@, Served(g).dstHeader, loc[g].rawRemoteIP)
               ELSE @]
  /\ pc' = [pc EXCEPT ![g] = "done"]
  /\ UNCHANGED <<builderVars, phase, req, obs>>

\* 141-146: the peer is not trusted: the destination header is set to a
\* non-empty rawRemoteIP, and the next handler is called
ServeUntrusted(g) ==
  /\ pc[g] = "peer"
  /\ ~loc[g].result
  /\ loc' = [loc EXCEPT ![g].header =
               IF loc[g].rawRemoteIP # <<>>
               THEN HeaderSet(@, Served(g).dstHeader, loc[g].rawRemoteIP)
               ELSE @]
  /\ pc' = [pc EXCEPT ![g] = "call_next"]
  /\ UNCHANGED <<builderVars, phase, req, obs>>

\* mutant of ServeTrusted: every source header is read as a chain
ServeTrustedAlwaysChain(g) ==
  /\ pc[g] = "peer"
  /\ loc[g].result
  /\ loc' = [loc EXCEPT ![g].xff = HeaderGet(loc[g].header, Served(g).srcHeader),
                        ![g].xffOps = loc[g].cacheOps]
  /\ pc' = [pc EXCEPT ![g] = "xff"]
  /\ UNCHANGED <<builderVars, phase, req, obs>>

\* 149-155: the peer is trusted: the candidate comes from realIPFromXFF for
\* x-forwarded-for and is the source header's value for any other header
ServeTrusted(g) ==
  /\ pc[g] = "peer"
  /\ loc[g].result
  /\ IF Served(g).srcHeader = HeaderXForwardedFor
     THEN /\ loc' = [loc EXCEPT ![g].xff = HeaderGet(loc[g].header, HeaderXForwardedFor),
                                ![g].xffOps = loc[g].cacheOps]
          /\ pc' = [pc EXCEPT ![g] = "xff"]
     ELSE /\ loc' = [loc EXCEPT ![g].realIP = HeaderGet(loc[g].header, Served(g).srcHeader),
                                ![g].cand = HeaderGet(loc[g].header, Served(g).srcHeader)]
          /\ pc' = [pc EXCEPT ![g] = "fallback"]
  /\ UNCHANGED <<builderVars, phase, req, obs>>

\* realIPFromXFF returns v to ServeHTTP (152)
ReturnXFF(l, v) == [l EXCEPT !.realIP = v, !.cand = v]

\* mutant of XFFSplit: without recursion the first entry is returned
XFFSplitFirstEntry(g) ==
  /\ pc[g] = "xff"
  /\ LET ips == Split(loc[g].xff, ",")
     IN  IF ~Served(g).recursive
         THEN /\ loc' = [loc EXCEPT ![g] =
                           ReturnXFF([@ EXCEPT !.ips = ips], TrimSpace(ips[1]))]
              /\ pc' = [pc EXCEPT ![g] = "fallback"]
         ELSE /\ loc' = [loc EXCEPT ![g].ips = ips, ![g].i = Len(ips)]
              /\ pc' = [pc EXCEPT ![g] = "xff_loop"]
  /\ UNCHANGED <<builderVars, phase, req, obs>>

\* 192-199: split on commas; without recursion the last entry, trimmed
XFFSplit(g) ==
  /\ pc[g] = "xff"
  /\ LET ips == Split(loc[g].xff, ",")
     IN  IF Len(ips) = 0
         THEN /\ loc' = [loc EXCEPT ![g] = ReturnXFF(@, <<>>)]
              /\ pc' = [pc EXCEPT ![g] = "fallback"]
         ELSE IF ~Served(g).recursive
         THEN /\ loc' = [loc EXCEPT ![g] =
                           ReturnXFF([@ EXCEPT !.ips = ips], TrimSpace(ips[Len(ips)]))]
              /\ pc' = [pc EXCEPT ![g] = "fallback"]
         ELSE /\ loc' = [loc EXCEPT ![g].ips = ips, ![g].i = Len(ips)]
              /\ pc' = [pc EXCEPT ![g] = "xff_loop"]
  /\ UNCHANGED <<builderVars, phase, req, obs>>

\* mutant of XFFLoop: after the loop the last entry is returned
XFFLoopLastEntry(g) ==
  /\ pc[g] = "xff_loop"
  /\ IF loc[g].i < 1
     THEN /\ loc' = [loc EXCEPT ![g] =
                       ReturnXFF(@, TrimSpace(loc[g].ips[Len(loc[g].ips)]))]
          /\ pc' = [pc EXCEPT ![g] = "fallback"]
     ELSE /\ loc' = [loc EXCEPT ![g] =
                       CallTrustedIP([@ EXCEPT !.ipStr = TrimSpace(loc[g].ips[loc[g].i])],
                                     ParseIP(TrimSpace(loc[g].ips[loc[g].i])), "xff_ret")]
          /\ pc' = [pc EXCEPT ![g] = "t_enter"]
  /\ UNCHANGED <<builderVars, phase, req, obs>>

\* 201-203 and 207: the loop from the last entry to the first (i counts from
\* Len(ips) down to 1); after the first entry, ips[0] trimmed is returned
XFFLoop(g) ==
  /\ pc[g] = "xff_loop"
  /\ IF loc[g].i < 1
     THEN /\ loc' = [loc EXCEPT ![g] = ReturnXFF(@, TrimSpace(loc[g].ips[1]))]
          /\ pc' = [pc EXCEPT ![g] = "fallback"]
     ELSE /\ loc' = [loc EXCEPT ![g] =
                       CallTrustedIP([@ EXCEPT !.ipStr = TrimSpace(loc[g].ips[loc[g].i])],
                                     ParseIP(TrimSpace(loc[g].ips[loc[g].i])), "xff_ret")]
          /\ pc' = [pc EXCEPT ![g] = "t_enter"]
  /\ UNCHANGED <<builderVars, phase, req, obs>>

\* mutant of XFFChecked: an entry that is no address is skipped
XFFCheckedSkipsMalformed(g) ==
  /\ pc[g] = "xff_ret"
  /\ IF ~loc[g].result /\ loc[g].ip # NilIP
     THEN /\ loc' = [loc EXCEPT ![g] = ReturnXFF(@, loc[g].ipStr)]
          /\ pc' = [pc EXCEPT ![g] = "fallback"]
     ELSE /\ loc' = [loc EXCEPT ![g].i = @ - 1]
          /\ pc' = [pc EXCEPT ![g] = "xff_loop"]
  /\ UNCHANGED <<builderVars, phase, req, obs>>

\* mutant of XFFChecked: the test is inverted, a trusted entry is returned
XFFCheckedInverted(g) ==
  /\ pc[g] = "xff_ret"
  /\ IF loc[g].result
     THEN /\ loc' = [loc EXCEPT ![g] = ReturnXFF(@, loc[g].ipStr)]
          /\ pc' = [pc EXCEPT ![g] = "fallback"]
     ELSE /\ loc' = [loc EXCEPT ![g].i = @ - 1]
          /\ pc' = [pc EXCEPT ![g] = "xff_loop"]
  /\ UNCHANGED <<builderVars, phase, req, obs>>

\* 203-205: an entry that is not trusted is returned, else i--
XFFChecked(g) ==
  /\ pc[g] = "xff_ret"
  /\ IF ~loc[g].result
     THEN /\ loc' = [loc EXCEPT ![g] = ReturnXFF(@, loc[g].ipStr)]
          /\ pc' = [pc EXCEPT ![g] = "fallback"]
     ELSE /\ loc' = [loc EXCEPT ![g].i = @ - 1]
          /\ pc' = [pc EXCEPT ![g] = "xff_loop"]
  /\ UNCHANGED <<builderVars, phase, req, obs>>

\* mutant of ServeFallback: an empty candidate does not fall back
ServeFallbackNone(g) ==
  /\ pc[g] = "fallback"
  /\ loc' = [loc EXCEPT ![g].header =
               IF loc[g].realIP # <<>>
               THEN HeaderSet(@, Served(g).dstHeader, loc[g].realIP)
               ELSE @]
  /\ pc' = [pc EXCEPT ![g] = "call_next"]
  /\ UNCHANGED <<builderVars, phase, req, obs>>

\* 157-162: an empty candidate falls back to rawRemoteIP; a non-empty realIP
\* is set as the destination header
ServeFallback(g) ==
  /\ pc[g] = "fallback"
  /\ LET realIP == IF loc[g].realIP = <<>> THEN loc[g].rawRemoteIP ELSE loc[g].realIP
     IN  loc' = [loc EXCEPT ![g].realIP = realIP,
                            ![g].header = IF realIP # <<>>
                                          THEN HeaderSet(@, Served(g).dstHeader, realIP)
                                          ELSE @]
  /\ pc' = [pc EXCEPT ![g] = "call_next"]
  /\ UNCHANGED <<builderVars, phase, req, obs>>

\* 145 and 163: h.next.ServeHTTP(w, r); a nil next is a nil dereference and
\* the goroutine panics. The next handler reads the destination header.
ServeNext(g) ==
  /\ pc[g] = "call_next"
  /\ IF Served(g).next = NoNext
     THEN /\ pc' = [pc EXCEPT ![g] = "panicked"]
          /\ UNCHANGED obs
     ELSE /\ obs' = [obs EXCEPT ![g] =
                       [ calls |-> obs[g].calls + 1, next |-> Served(g).next,
                         dst |-> HeaderGet(loc[g].header, Served(g).dstHeader) ]]
          /\ pc' = [pc EXCEPT ![g] = "done"]
  /\ UNCHANGED <<builderVars, phase, req, loc>>

\* ServeHTTP has returned (146, 164) or panicked; the goroutine takes the
\* next request
ServeReturn(g) ==
  /\ pc[g] \in {"done", "panicked"}
  /\ pc' = [pc EXCEPT ![g] = "idle"]
  /\ req' = [req EXCEPT ![g] = NoRequest]
  /\ loc' = [loc EXCEPT ![g] = NoLocals]
  /\ obs' = [obs EXCEPT ![g] = NoObs]
  /\ UNCHANGED <<builderVars, phase>>

(***************************************************************************)
(* The serving specification: the harness configures a builder, builds one *)
(* Handler, wraps it and serves requests with it, one at a time.           *)
(***************************************************************************)
ServeSrcNames == {NameForwarded, NameXFF}
ServeDstNames == {NameXClientIP}
ServeRanges == {<<NetLoopback>>, <<NetPrivate>>}

Next ==
  \/ \E name \in ServeSrcNames : returned = {} /\ SourceHeader(name)
  \/ \E header \in ServeDstNames : returned = {} /\ DestinationHeader(header)
  \/ \E trusted \in ServeRanges :
       /\ returned = {}
       /\ Len(TrustedOf(builder.h)) + Len(trusted) <= MaxTrusted
       /\ TrustedIP(trusted)
  \/ \E v \in BOOLEAN : returned = {} /\ Recursive(v)
  \/ returned = {} /\ Build
  \/ \E h \in returned : Wrap(h, "n1")
  \/ StartServing
  \/ \E g \in Procs, h \in returned, remoteAddr \in RemoteAddrs, header \in Headers :
       ServeBegin(g, h, remoteAddr, header)
  \/ \E g \in Procs : TrustedEnter(g)
  \/ \E g \in Procs : CacheRLock(g)
  \/ \E g \in Procs : CacheRead(g)
  \/ \E g \in Procs : CacheRUnlock(g)
  \/ \E g \in Procs : ScanRange(g)
  \/ \E g \in Procs : CacheLock(g)
  \/ \E g \in Procs : CacheWrite(g)
  \/ \E g \in Procs : CacheUnlock(g)
  \/ \E g \in Procs : ServeUntrusted(g)
  \/ \E g \in Procs : ServeTrusted(g)
  \/ \E g \in Procs : XFFSplit(g)
  \/ \E g \in Procs : XFFLoop(g)
  \/ \E g \in Procs : XFFChecked(g)
  \/ \E g \in Procs : ServeFallback(g)
  \/ \E g \in Procs : ServeNext(g)
  \/ \E g \in Procs : ServeReturn(g)

Spec == Init /\ [][Next]_vars

(***************************************************************************)
(* What the claims are stated with: trust as the configuration defines it  *)
(* (no cache), the peer's host, and the trimmed entries of a chain.        *)
(***************************************************************************)
InSomeRange(trusted, ip) == \E k \in DOMAIN trusted : Contains(trusted[k], ip)
\* the address string s is trusted by a Handler with these ranges
Trusts(trusted, s) == trusted = <<>> \/ InSomeRange(trusted, ParseIP(s))

PeerHost(g) == SplitHost(req[g].remoteAddr)
PeerTrusted(g) == Trusts(Served(g).trusted, PeerHost(g))
InFlight(g) == pc[g] # "idle"

\* the X-Forwarded-For value of g's request and its entries, trimmed
ChainOf(g) == HeaderGet(req[g].header, HeaderXForwardedFor)
EntriesOf(g) ==
  LET ips == Split(ChainOf(g), ",") IN [i \in DOMAIN ips |-> TrimSpace(ips[i])]
NotTrustedAt(g) ==
  {i \in DOMAIN EntriesOf(g) : ~Trusts(Served(g).trusted, EntriesOf(g)[i])}
MaxOf(S) == CHOOSE i \in S : \A j \in S : j <= i

\* realIPFromXFF has returned to ServeHTTP: loc[g].cand is its result
XFFReturned(g) ==
  pc[g] = "fallback" /\ Served(g).srcHeader = HeaderXForwardedFor

\* C1: a request from a peer with a non-empty address that is not trusted
\* (ranges are configured and the address lies in none) has its destination
\* header set to the raw peer address before the next handler is called,
\* which is called, whatever the source header, the recursive flag and the
\* request's headers are.
C1_UntrustedPeerGetsPeerAddress ==
  \A g \in Procs :
    (InFlight(g) /\ PeerHost(g) # <<>> /\ ~PeerTrusted(g)) =>
      /\ pc[g] \in {"call_next", "done"} =>
           HeaderGet(loc[g].header, Served(g).dstHeader) = PeerHost(g)
      /\ pc[g] = "done" => obs[g].calls = 1 /\ obs[g].dst = PeerHost(g)
      /\ pc[g] \notin {"xff", "xff_loop", "xff_ret", "fallback", "panicked"}

\* C1's case: the next handler has been called for an untrusted peer whose
\* request carried another address in the source header, here a chain under
\* a recursive x-forwarded-for configuration
C1_Witness ==
  \E g \in Procs :
    /\ pc[g] = "done" /\ PeerHost(g) = Addr127 /\ ~PeerTrusted(g)
    /\ Served(g).srcHeader = HeaderXForwardedFor /\ Served(g).recursive
    /\ ChainOf(g) = Join(<<Addr1111, Addr192>>)
    /\ obs[g].dst = Addr127

\* C3: in recursive mode, for a chain with an entry that is not trusted,
\* realIPFromXFF returns the rightmost such entry, trimmed, and its loop
\* stopped at that entry: the entries to its left were never looked at.
C3_RecursiveRightmostUntrusted ==
  \A g \in Procs :
    (XFFReturned(g) /\ Served(g).recursive /\ NotTrustedAt(g) # {}) =>
      /\ loc[g].cand = EntriesOf(g)[MaxOf(NotTrustedAt(g))]
      /\ loc[g].i = MaxOf(NotTrustedAt(g))
      /\ \A j \in DOMAIN EntriesOf(g) :
           j > loc[g].i => Trusts(Served(g).trusted, EntriesOf(g)[j])

\* C3's case: the chain of realip_test.go, "1.1.1.1, 192.168.0.1" with a
\* trusted last entry and a first entry that is not
C3_Witness ==
  \E g \in Procs :
    /\ XFFReturned(g) /\ Served(g).recursive
    /\ ChainOf(g) = Join(<<Addr1111, Addr192>>)
    /\ NotTrustedAt(g) = {1}
    /\ loc[g].cand = Addr1111

\* C4: in recursive mode, when every entry of the chain is trusted (each
\* lies in a configured range, or no range is configured), realIPFromXFF
\* returns the first entry, trimmed.
C4_RecursiveAllTrustedLeftmost ==
  \A g \in Procs :
    (XFFReturned(g) /\ Served(g).recursive /\ NotTrustedAt(g) = {}) =>
      loc[g].cand = EntriesOf(g)[1]

\* C4's case: ranges are configured and a chain of two entries lies in them
\* (with two spellings of one address, the second answered by the cache)
C4_Witness ==
  \E g \in Procs :
    /\ XFFReturned(g) /\ Served(g).recursive /\ Served(g).trusted # <<>>
    /\ Len(EntriesOf(g)) >= 2 /\ NotTrustedAt(g) = {}
    /\ loc[g].cand = EntriesOf(g)[1]

\* C5: without recursion realIPFromXFF returns the last comma-separated
\* entry, trimmed, for every chain, whether it is trusted, not trusted or no
\* address; it calls trustedIP for no entry and does not touch the cache.
C5_NonRecursiveLastEntry ==
  \A g \in Procs :
    (XFFReturned(g) /\ ~Served(g).recursive) =>
      /\ loc[g].cand = EntriesOf(g)[Len(EntriesOf(g))]
      /\ loc[g].cacheOps = loc[g].xffOps
      /\ loc[g].trustCalls = 1

\* C5's case: ranges are configured and the last entry of a longer chain is
\* not trusted by them, yet it is what realIPFromXFF returns
C5_Witness ==
  \E g \in Procs :
    /\ XFFReturned(g) /\ ~Served(g).recursive /\ Served(g).trusted # <<>>
    /\ Len(EntriesOf(g)) >= 2
    /\ Len(EntriesOf(g)) \in NotTrustedAt(g)
    /\ loc[g].cand = AddrBogus

\* C6: for a trusted peer and a source header other than x-forwarded-for
\* with a non-empty value, the destination header the next handler reads is
\* that value as it is: not split at commas, no trustedIP call beyond the
\* peer's, the same with and without the recursive flag.
C6_OtherHeaderVerbatim ==
  \A g \in Procs :
    ( /\ pc[g] = "done" /\ PeerTrusted(g)
      /\ Served(g).srcHeader # HeaderXForwardedFor
      /\ HeaderGet(req[g].header, Served(g).srcHeader) # <<>> ) =>
      /\ obs[g].dst = HeaderGet(req[g].header, Served(g).srcHeader)
      /\ loc[g].trustCalls = 1

\* C6's case: an x-real-ip value holding a comma, under the recursive flag
C6_Witness ==
  \E g \in Procs :
    /\ pc[g] = "done" /\ PeerTrusted(g) /\ Served(g).recursive
    /\ Served(g).srcHeader = HeaderXRealIP
    /\ obs[g].dst = Addr6666 \o <<",", " ">> \o Addr7777

\* C7: for a trusted peer, when the candidate from the source header is
\* empty (no header, an empty header, an empty chain entry), the destination
\* header is set to the raw peer address if that is not empty.
C7_EmptyCandidateFallsBack ==
  \A g \in Procs :
    ( /\ pc[g] \in {"call_next", "done"} /\ PeerTrusted(g)
      /\ loc[g].cand = <<>> /\ PeerHost(g) # <<>> ) =>
      /\ HeaderGet(loc[g].header, Served(g).dstHeader) = PeerHost(g)
      /\ pc[g] = "done" => obs[g].dst = PeerHost(g)

\* C7's case: the chain walk gave an empty entry of a non-empty chain
C7_Witness ==
  \E g \in Procs :
    /\ pc[g] = "done" /\ PeerTrusted(g) /\ loc[g].cand = <<>>
    /\ Served(g).srcHeader = HeaderXForwardedFor /\ ChainOf(g) # <<>>
    /\ obs[g].dst = Addr127

\* C8: a call of ServeHTTP on a built and wrapped Handler never panics, and
\* when it returns the next handler has been called exactly once, for every
\* peer address and every header set.
C8_NextCalledExactlyOnce ==
  \A g \in Procs :
    /\ pc[g] # "panicked"
    /\ obs[g].calls <= 1
    /\ pc[g] = "done" <=> obs[g].calls = 1
    /\ pc[g] = "done" => obs[g].next = Served(g).next

\* C8's case: ServeHTTP has returned for a peer address without a port, a
\* trusted-everybody configuration and a malformed chain entry
C8_Witness ==
  \E g \in Procs :
    /\ pc[g] = "done" /\ obs[g].calls = 1
    /\ PeerHost(g) = <<>>
    /\ Served(g).srcHeader = HeaderXForwardedFor
    /\ AddrBogus \in Range(EntriesOf(g))

(***************************************************************************)
(* The builder's claims, under SpecBuilder.                                *)
(***************************************************************************)
\* what a failed Build returns: no Handler and the error
BuildFailedWith(err) == lastBuild.h = NilHandler /\ lastBuild.err = err
BuildFailed == lastBuild.h = NilHandler /\ lastBuild.err # NoErr

\* C2 as stated: in every sequence of builder calls, a Build that follows a
\* call of SourceHeader with a name that normalises to "forwarded" (no other
\* Build in between) returns an error and no Handler.
C2_AsStated == lastBuild.hist.fwdSinceBuild => BuildFailed

\* C2, amended: a Build returns an error and no Handler if SourceHeader was
\* called with a name that normalises to "forwarded" since the builder was
\* created or last reset (by Reset or by a Build); and the srcHeader of every
\* Handler that Build returned is lower-case, trimmed and not "forwarded".
C2_ForwardedSinceResetFailsBuild ==
  /\ lastBuild.hist.fwdSinceReset => BuildFailed
  /\ \A h \in returned :
       /\ heap[h].srcHeader = ToLower(heap[h].srcHeader)
       /\ heap[h].srcHeader = TrimSpace(heap[h].srcHeader)
       /\ heap[h].srcHeader # headerForwarded

\* C2's case: Build has failed after SourceHeader(" FORWARDED\t"), and a
\* Handler with a normalised source header has been returned as well
C2_Witness ==
  /\ lastBuild.hist.fwdSinceReset
  /\ BuildFailedWith(UnsupportedErr(NameForwardedPadded))
  /\ \E h \in returned : heap[h].srcHeader = HeaderXForwardedFor

\* a call of one of the four setters
SetterCall ==
  \/ \E name \in BuilderSrcNames : SourceHeader(name)
  \/ \E header \in BuilderDstNames : DestinationHeader(header)
  \/ \E trusted \in BuilderRanges : TrustedIP(trusted)
  \/ \E v \in BOOLEAN : Recursive(v)

PairRemoteAddrs == {Addr127 \o <<":","8","0">>, Addr127}
PairHeaders ==
  { OneHeader(CanonXRealIP, Addr6666), OneHeader(CanonXRealIP, Addr7777),
    OneHeader(CanonXFF, Join(<<Addr1111, Addr192>>)) }

InitPair == InitWith({1, 2})

NextPair ==
  \/ returned = {} /\ SourceHeader(NameXFF)
  \/ \E trusted \in ServeRanges :
       /\ returned = {}
       /\ TrustedOf(builder.h) = <<>>
       /\ TrustedIP(trusted)
  \/ returned = {} /\ Recursive(TRUE)
  \/ returned = {} /\ Build
  \/ \E h \in returned : Wrap(h, "n1")
  \/ StartServing
  \/ \E g \in Procs, h \in returned, remoteAddr \in PairRemoteAddrs,
        header \in PairHeaders :
       ServeBegin(g, h, remoteAddr, header)
  \/ \E g \in Procs : TrustedEnter(g)
  \/ \E g \in Procs : CacheRLock(g)
  \/ \E g \in Procs : CacheRead(g)
  \/ \E g \in Procs : CacheRUnlock(g)
  \/ \E g \in Procs : ScanRange(g)
  \/ \E g \in Procs : CacheLock(g)
  \/ \E g \in Procs : CacheWrite(g)
  \/ \E g \in Procs : CacheUnlock(g)
  \/ \E g \in Procs : ServeUntrusted(g)
  \/ \E g \in Procs : ServeTrusted(g)
  \/ \E g \in Procs : XFFSplit(g)
  \/ \E g \in Procs : XFFLoop(g)
  \/ \E g \in Procs : XFFChecked(g)
  \/ \E g \in Procs : ServeFallback(g)
  \/ \E g \in Procs : ServeNext(g)
  \/ \E g \in Procs : ServeReturn(g)

SpecPair == InitPair /\ [][NextPair]_vars

\* C9: two requests to one Handler from the same peer that is not trusted,
\* its address unparseable or empty included, which differ only in their
\* headers, show the next handler the same destination-header value.
C9_UntrustedPeerHeadersIgnored ==
  \A g1, g2 \in Procs :
    ( /\ pc[g1] = "done" /\ pc[g2] = "done"
      /\ req[g1].h = req[g2].h
      /\ req[g1].remoteAddr = req[g2].remoteAddr
      /\ ~PeerTrusted(g1) ) =>
      obs[g1].dst = obs[g2].dst

(***************************************************************************)
(* The reuse specification: the harness takes the builder up again after   *)
(* a Build, and after it has served requests with the Handlers built so    *)
(* far, and builds up to MaxHandlers Handlers with the one builder.        *)
(***************************************************************************)
MaxHandlers == 2

\* the harness closes its server (defer ts.Close()) once no request is in
\* flight, and goes on to its next case
StopServing ==
  /\ phase = "serve"
  /\ \A g \in Procs : pc[g] = "idle"
  /\ phase' = "config"
  /\ UNCHANGED <<builderVars, serveVars>>

ReuseSrcNames == {NameForwarded, NameXFFPadded}
ReuseRemoteAddrs == {Addr127 \o <<":","8","0">>, AddrBogus \o <<":","8","0">>}
ReuseHeaders == {OneHeader(CanonXFF, Addr192)}

\* a Handler as New() leaves the builder's: the defaults, nothing cached
InitialHandler ==
  [ trusted |-> <<>>, srcHeader |-> HeaderXRealIP, dstHeader |-> HeaderXRealIP,
    recursive |-> FALSE, next |-> NoNext, cache |-> {},
    readers |-> {}, writer |-> 0 ]

\* every Handler built so far has been wrapped
AllWrapped == \A h \in returned : heap[h].next # NoNext

\* the harness may configure the builder: it has wrapped what it has built,
\* and after an error it goes straight to Reset or Build
MayConfigure == AllWrapped /\ builder.err = NoErr

\* the builder is as a Build has left it
JustBuilt ==
  hist = NoHist /\ builder.err = NoErr /\ Deref(builder.h) = InitialHandler

\* the harness wraps a Handler as soon as it is built, and starts its server
\* before it takes the builder up again (realip_test.go 137-151)
NextReuse ==
  \/ \E name \in ReuseSrcNames : MayConfigure /\ SourceHeader(name)
  \/ \E trusted \in BuilderRanges :
       /\ MayConfigure
       /\ TrustedOf(builder.h) = <<>>
       /\ TrustedIP(trusted)
  \/ MayConfigure /\ Recursive(TRUE)
  \/ AllWrapped /\ Reset
  \/ /\ AllWrapped
     /\ Cardinality(returned) < MaxHandlers \/ builder.err # NoErr
     /\ Build
  \/ \E h \in returned : heap[h].next = NoNext /\ Wrap(h, "n1")
  \/ JustBuilt /\ StartServing
  \/ StopServing
  \/ \E g \in Procs, h \in returned, remoteAddr \in ReuseRemoteAddrs,
        header \in ReuseHeaders :
       /\ Deref(h).trusted # <<>> /\ Deref(h).cache = {}
       /\ ServeBegin(g, h, remoteAddr, header)
  \/ \E g \in Procs : TrustedEnter(g)
  \/ \E g \in Procs : CacheRLock(g)
  \/ \E g \in Procs : CacheRead(g)
  \/ \E g \in Procs : CacheRUnlock(g)
  \/ \E g \in Procs : ScanRange(g)
  \/ \E g \in Procs : CacheLock(g)
  \/ \E g \in Procs : CacheWrite(g)
  \/ \E g \in Procs : CacheUnlock(g)
  \/ \E g \in Procs : ServeUntrusted(g)
  \/ \E g \in Procs : ServeTrusted(g)
  \/ \E g \in Procs : XFFSplit(g)
  \/ \E g \in Procs : XFFLoop(g)
  \/ \E g \in Procs : XFFChecked(g)
  \/ \E g \in Procs : ServeFallback(g)
  \/ \E g \in Procs : ServeNext(g)
  \/ \E g \in Procs : ServeReturn(g)

SpecReuse == Init /\ [][NextReuse]_vars

\* a call on the builder
BuilderCall == SetterCall \/ Reset \/ Build

\* the Handlers in use: those Build returned and the builder's own
Handlers == returned \cup {builder.h}

\* no two Handlers hold the same map, the same mutex or the same array
NoSharing ==
  \A h1, h2 \in Handlers :
    h1 # h2 =>
      /\ heap[h1].cache # heap[h2].cache
      /\ heap[h1].muCache # heap[h2].muCache
      /\ heap[h1].trusted # NilSlice => heap[h1].trusted # heap[h2].trusted

\* C11: every Build, failed or not, leaves the builder as New() does (no
\* error, a Handler of its own with the default headers, no range, not
\* recursive, nothing cached); no call on the builder changes a field, the
\* ranges, the cache or the lock of a Handler that Build returned before;
\* and no two Handlers of the builder share a range list, a cache or a lock.
C11_BuildResetsAndIsolates ==
  [][ /\ \/ /\ builder'.err = NoErr
            /\ builder'.h \notin returned'
            /\ Deref(builder.h)' = InitialHandler
         \/ ~Build
      /\ \/ \A h \in returned : heap'[h] = heap[h] /\ Deref(h)' = Deref(h)
         \/ ~BuilderCall
      /\ NoSharing /\ NoSharing' ]_vars

\* C11's case: the builder has built two Handlers, the first with a range
\* and an address cached by a request it served, the second without, and a
\* Build has failed since; the builder is fresh
C11_Witness ==
  /\ \E h1, h2 \in returned :
       /\ Deref(h1).cache = {Addr127} /\ Deref(h1).trusted = <<NetLoopback>>
       /\ Deref(h2).trusted = <<>> /\ Deref(h2).srcHeader = HeaderXForwardedFor
  /\ lastBuild.h = NilHandler /\ lastBuild.err # NoErr
  /\ Deref(builder.h) = InitialHandler

(***************************************************************************)
(* The wrapping specification: the harness builds one Handler and uses it  *)
(* as a middleware for its next handlers, h.Wrap(n1) and h.Wrap(n2), then  *)
(* serves requests; it may stop its server and wrap again.                 *)
(***************************************************************************)
NextWrap ==
  \/ returned = {} /\ SourceHeader(NameXFF)
  \/ \E trusted \in ServeRanges :
       /\ returned = {}
       /\ TrustedOf(builder.h) = <<>>
       /\ TrustedIP(trusted)
  \/ returned = {} /\ Recursive(TRUE)
  \/ returned = {} /\ Build
  \/ \E h \in returned, next \in NextHandlers : Wrap(h, next)
  \/ StartServing
  \/ StopServing
  \/ \E g \in Procs, h \in returned, remoteAddr \in PairRemoteAddrs,
        header \in PairHeaders :
       ServeBegin(g, h, remoteAddr, header)
  \/ \E g \in Procs : TrustedEnter(g)
  \/ \E g \in Procs : CacheRLock(g)
  \/ \E g \in Procs : CacheRead(g)
  \/ \E g \in Procs : CacheRUnlock(g)
  \/ \E g \in Procs : ScanRange(g)
  \/ \E g \in Procs : CacheLock(g)
  \/ \E g \in Procs : CacheWrite(g)
  \/ \E g \in Procs : CacheUnlock(g)
  \/ \E g \in Procs : ServeUntrusted(g)
  \/ \E g \in Procs : ServeTrusted(g)
  \/ \E g \in Procs : XFFSplit(g)
  \/ \E g \in Procs : XFFLoop(g)
  \/ \E g \in Procs : XFFChecked(g)
  \/ \E g \in Procs : ServeFallback(g)
  \/ \E g \in Procs : ServeNext(g)
  \/ \E g \in Procs : ServeReturn(g)

SpecWrap == Init /\ [][NextWrap]_vars

\* a call of Wrap
WrapCall == \E h \in returned, next \in NextHandlers : Wrap(h, next)

\* the configuration of the Handler at address h
ConfigOf(h) ==
  [ trusted |-> Deref(h).trusted, srcHeader |-> Deref(h).srcHeader,
    dstHeader |-> Deref(h).dstHeader, recursive |-> Deref(h).recursive ]

\* a request that was served was forwarded to the next handler of every
\* http.Handler that Wrap returned for the Handler that served it (each of
\* them is that Handler)
ForwardedToWrapped ==
  \A g \in Procs :
    pc[g] = "done" =>
      \A w \in wrappers : w.h = req[g].h => obs[g].next = w.next

\* C12: the http.Handler that h.Wrap(n) returned forwards every request it
\* serves to n, also after h.Wrap was called again with another next
\* handler; and Wrap leaves the configuration of h (ranges, header names,
\* recursive flag) as it is.
C12_WrapperForwardsToItsNext ==
  [][ /\ \/ \A h \in returned : ConfigOf(h)' = ConfigOf(h)
         \/ ~WrapCall
      /\ ForwardedToWrapped' ]_vars

(***************************************************************************)
(* Resolution without the cache: what ServeHTTP computes when trustedIP is *)
(* answered by the ranges alone (realip.go 167-170 and 180-188).           *)
(***************************************************************************)
\* trustedIP without lines 172-178 and 182-184
ColdTrustedIP(trusted, ip) == Len(trusted) = 0 \/ InSomeRange(trusted, ip)

\* realIPFromXFF over ColdTrustedIP
ColdRealIPFromXFF(h, xff) ==
  LET ips == Split(xff, ",")
      notTrusted == {i \in DOMAIN ips :
                       ~ColdTrustedIP(h.trusted, ParseIP(TrimSpace(ips[i])))}
  IN  IF Len(ips) = 0 THEN <<>>
      ELSE IF ~h.recursive THEN TrimSpace(ips[Len(ips)])
      ELSE IF notTrusted # {} THEN TrimSpace(ips[MaxOf(notTrusted)])
      ELSE TrimSpace(ips[1])

\* the destination header the next handler reads, over ColdTrustedIP
ColdServeHTTP(h, remoteAddr, header) ==
  LET rawRemoteIP == SplitHost(remoteAddr)
      cand == IF h.srcHeader = HeaderXForwardedFor
              THEN ColdRealIPFromXFF(h, HeaderGet(header, HeaderXForwardedFor))
              ELSE HeaderGet(header, h.srcHeader)
      realIP == IF ~ColdTrustedIP(h.trusted, ParseIP(rawRemoteIP)) THEN rawRemoteIP
                ELSE IF cand = <<>> THEN rawRemoteIP
                ELSE cand
  IN  IF realIP # <<>> THEN realIP ELSE HeaderGet(header, h.dstHeader)

\* trustedIP has returned to its caller: loc[g].result is what it returned
\* for loc[g].ip
TrustedIPReturned(g) == pc[g] \in {"peer", "xff_ret"}

\* C13: whatever was resolved on the Handler before, trustedIP(ip) returns
\* true exactly when a range contains ip or no range is configured, and the
\* destination header the next handler reads is what the request gives
\* without the cache: a warm cache and a cold one give the same value.
C13_CacheChangesNoResult ==
  \A g \in Procs :
    /\ TrustedIPReturned(g) =>
         (loc[g].result <=> ColdTrustedIP(Served(g).trusted, loc[g].ip))
    /\ pc[g] = "done" =>
         obs[g].dst = ColdServeHTTP(Served(g), req[g].remoteAddr, req[g].header)

\* C13's case: a request was resolved with a warm cache: its peer and the
\* trusted entry of its chain were answered by the cache (three reads of
\* the cache and no insertion)
C13_Witness ==
  \E g \in Procs :
    /\ pc[g] = "done" /\ loc[g].cacheOps = 3
    /\ Served(g).recursive /\ Served(g).srcHeader = HeaderXForwardedFor
    /\ ChainOf(g) = Join(<<Addr1111, Addr192>>)
    /\ Served(g).cache = {Addr127, Addr192}
    /\ obs[g].dst = Addr1111

\* goroutine g is inside trustedIP past its first test: at the cache, at
\* the lock or in the scan
PastShortcut(g) ==
  pc[g] \in {"t_rlock", "t_read", "t_runlock", "t_scan", "t_lock", "t_write", "t_unlock"}

\* C14: with no range configured trustedIP returns true for every address,
\* the nil address of an unparseable string included, without reading or
\* writing the cache and without taking the lock; the cache stays empty
\* over every sequence of requests.
C14_TrustAllBypassesCache ==
  /\ \A h \in returned :
       Deref(h).trusted = <<>> =>
         Deref(h).cache = {} /\ Deref(h).readers = {} /\ Deref(h).writer = 0
  /\ \A g \in Procs :
       (InFlight(g) /\ Served(g).trusted = <<>>) =>
         /\ ~PastShortcut(g)
         /\ loc[g].cacheOps = 0
         /\ TrustedIPReturned(g) => loc[g].result

\* C14's case: a Handler without ranges has answered trustedIP for an
\* unparseable peer and for an unparseable chain entry, and is about to be
\* asked for the entry before it
C14_Witness ==
  \E g \in Procs :
    /\ pc[g] = "xff_ret" /\ Served(g).trusted = <<>> /\ loc[g].result
    /\ loc[g].trustCalls = 2 /\ loc[g].ip = NilIP
    /\ ParseIP(PeerHost(g)) = NilIP /\ PeerHost(g) # <<>>
    /\ loc[g].ipStr = AddrBogus

(***************************************************************************)
(* The claims about concurrent requests, under SpecPair.                   *)
(***************************************************************************)
\* goroutine g is at the map: about to read it (174) or to insert (183)
AtCacheRead(g) == pc[g] = "t_read"
AtCacheWrite(g) == pc[g] = "t_write"

\* C15: under every interleaving of the ServeHTTP calls on one Handler, a
\* goroutine inserts into the map only as the writer of the lock and reads
\* it only as a reader of the lock, and no insertion is in progress together
\* with another read or insertion on the same map.
C15_CacheAccessUnderLock ==
  /\ \A g \in Procs :
       /\ AtCacheWrite(g) => Served(g).writer = g /\ Served(g).readers = {}
       /\ AtCacheRead(g) => g \in Served(g).readers /\ Served(g).writer = 0
  /\ \A g1, g2 \in Procs :
       ( /\ g1 # g2 /\ AtCacheWrite(g1)
         /\ InFlight(g2) /\ heap[req[g2].h].cache = heap[req[g1].h].cache ) =>
         ~AtCacheRead(g2) /\ ~AtCacheWrite(g2)

\* C15's case: both goroutines missed the cache for the same address; one
\* is inserting and the other is waiting for the lock to insert
C15_Witness ==
  /\ AtCacheWrite(1) /\ pc[2] = "t_lock"
  /\ req[1].h = req[2].h /\ loc[1].ipstr = loc[2].ipstr

(***************************************************************************)
(* Resolution run alone: ServeHTTP as a function of the Handler, the cache *)
(* it finds and the request, giving the destination header the next        *)
(* handler reads and the cache it leaves.                                  *)
(***************************************************************************)
\* trustedIP (166-189) run without interruption
SeqTrustedIP(trusted, cache, ip) ==
  IF Len(trusted) = 0 THEN [result |-> TRUE, cache |-> cache]
  ELSE IF IPString(ip) \in cache THEN [result |-> TRUE, cache |-> cache]
  ELSE IF InSomeRange(trusted, ip)
  THEN [result |-> TRUE, cache |-> cache \cup {IPString(ip)}]
  ELSE [result |-> FALSE, cache |-> cache]

\* the loop of realIPFromXFF (201-207) from entry i down
RECURSIVE SeqLoop(_, _, _, _)
SeqLoop(h, cache, ips, i) ==
  IF i < 1 THEN [value |-> TrimSpace(ips[1]), cache |-> cache]
  ELSE LET ipStr == TrimSpace(ips[i])
           t == SeqTrustedIP(h.trusted, cache, ParseIP(ipStr))
       IN  IF ~t.result THEN [value |-> ipStr, cache |-> t.cache]
           ELSE SeqLoop(h, t.cache, ips, i - 1)

\* realIPFromXFF (191-208)
SeqRealIPFromXFF(h, cache, xff) ==
  LET ips == Split(xff, ",")
  IN  IF Len(ips) = 0 THEN [value |-> <<>>, cache |-> cache]
      ELSE IF ~h.recursive
      THEN [value |-> TrimSpace(ips[Len(ips)]), cache |-> cache]
      ELSE SeqLoop(h, cache, ips, Len(ips))

\* ServeHTTP (139-164) on request r
SeqServeHTTP(h, cache, r) ==
  LET rawRemoteIP == SplitHost(r.remoteAddr)
      peer == SeqTrustedIP(h.trusted, cache, ParseIP(rawRemoteIP))
      cand == IF h.srcHeader = HeaderXForwardedFor
              THEN SeqRealIPFromXFF(h, peer.cache, HeaderGet(r.header, HeaderXForwardedFor))
              ELSE [value |-> HeaderGet(r.header, h.srcHeader), cache |-> peer.cache]
      realIP == IF ~peer.result THEN rawRemoteIP
                ELSE IF cand.value = <<>> THEN rawRemoteIP
                ELSE cand.value
  IN  [ dst |-> IF realIP # <<>> THEN realIP ELSE HeaderGet(r.header, h.dstHeader),
        cache |-> IF peer.result THEN cand.cache ELSE peer.cache ]

\* request r1 and then request r2, on a Handler with nothing cached
SeqBoth(h, r1, r2) ==
  LET first == SeqServeHTTP(h, {}, r1)
      second == SeqServeHTTP(h, first.cache, r2)
  IN  [dst1 |-> first.dst, dst2 |-> second.dst, cache |-> second.cache]

(***************************************************************************)
(* Two goroutines serve one request each, at the same time, on a Handler   *)
(* with nothing cached; the Handler has no range, or the two of            *)
(* realip_test.go.                                                         *)
(***************************************************************************)
OnceRanges == {<<NetLoopback, NetPrivate>>}

NextOnce ==
  \/ returned = {} /\ SourceHeader(NameXFF)
  \/ \E trusted \in OnceRanges :
       /\ returned = {}
       /\ TrustedOf(builder.h) = <<>>
       /\ TrustedIP(trusted)
  \/ returned = {} /\ Recursive(TRUE)
  \/ returned = {} /\ Build
  \/ \E h \in returned : Wrap(h, "n1")
  \/ StartServing
  \/ \E g \in Procs, h \in returned, remoteAddr \in PairRemoteAddrs,
        header \in PairHeaders :
       ServeBegin(g, h, remoteAddr, header)
  \/ \E g \in Procs : TrustedEnter(g)
  \/ \E g \in Procs : CacheRLock(g)
  \/ \E g \in Procs : CacheRead(g)
  \/ \E g \in Procs : CacheRUnlock(g)
  \/ \E g \in Procs : ScanRange(g)
  \/ \E g \in Procs : CacheLock(g)
  \/ \E g \in Procs : CacheWrite(g)
  \/ \E g \in Procs : CacheUnlock(g)
  \/ \E g \in Procs : ServeUntrusted(g)
  \/ \E g \in Procs : ServeTrusted(g)
  \/ \E g \in Procs : XFFSplit(g)
  \/ \E g \in Procs : XFFLoop(g)
  \/ \E g \in Procs : XFFChecked(g)
  \/ \E g \in Procs : ServeFallback(g)
  \/ \E g \in Procs : ServeNext(g)

SpecOnce == InitPair /\ [][NextOnce]_vars

\* C16: for concurrent resolutions on one Handler, under every interleaving
\* of their steps, each resolution gives the result it gives when run alone,
\* and once all are done the cache is the one that running them one after
\* the other leaves, in either order.
C16_ConcurrentAsSequential ==
  /\ \A g \in Procs :
       pc[g] = "done" => obs[g].dst = SeqServeHTTP(Served(g), {}, req[g]).dst
  /\ \A g1, g2 \in Procs :
       (g1 # g2 /\ pc[g1] = "done" /\ pc[g2] = "done") =>
         /\ Served(g1).cache = SeqBoth(Served(g1), req[g1], req[g2]).cache
         /\ obs[g1].dst = SeqBoth(Served(g1), req[g1], req[g2]).dst1
         /\ obs[g2].dst = SeqBoth(Served(g1), req[g1], req[g2]).dst2

\* C16's case: both goroutines missed the cache for the peer's address,
\* both scanned and both inserted it, and both are done
C16_Witness ==
  /\ pc[1] = "done" /\ pc[2] = "done"
  /\ loc[1].cacheOps >= 2 /\ loc[2].cacheOps >= 2
  /\ ~loc[1].cached /\ ~loc[2].cached
  /\ loc[1].ipstr = Addr127 /\ loc[2].ipstr = Addr127
  /\ Served(1).cache = {Addr127}

\* the addresses that the strings of the requests parse to (not the nil
\* address of the strings that do not parse), each with its string form
ParsedIPs ==
  {ParseIP(s) : s \in {Addr127, Addr1111, Addr6666, Addr7777, Addr192, Addr192Mapped}}
IPStrings == [ip \in ParsedIPs |-> IPString(ip)]

\* every key of every cache is the string of a parsed address that one of
\* the Handler's ranges contains
KeysInRange ==
  \A h \in Handlers :
    \A key \in Deref(h).cache :
      \E ip \in ParsedIPs :
        IPStrings[ip] = key /\ InSomeRange(Deref(h).trusted, ip)

\* goroutine g is inside trustedIP
InTrustedIP(g) == pc[g] = "t_enter" \/ PastShortcut(g)

\* C17: every key of the cache is the string form of an address that lies
\* in one of the Handler's ranges, so never the string of the nil address;
\* the step in which trustedIP returns false changes no cache; and no step
\* removes a key.
C17_CacheKeysTrustedAndGrowing ==
  [][ /\ KeysInRange'
      /\ \A h \in returned : Deref(h).cache \subseteq Deref(h)'.cache
      /\ \A g \in Procs :
           (InTrustedIP(g) /\ TrustedIPReturned(g)' /\ ~loc'[g].result) =>
             /\ heap' = heap
             /\ IPString(loc[g].ip) \notin Served(g).cache ]_vars

\* C17's case: with the peer and a chain entry cached, trustedIP has
\* returned false for an unparseable entry
C17_Witness ==
  \E g \in Procs :
    /\ pc[g] = "xff_ret" /\ ~loc[g].result /\ loc[g].ip = NilIP
    /\ Served(g).cache = {Addr127, Addr192}

\* the entries of g's chain that are no address
MalformedAt(g) == {i \in DOMAIN EntriesOf(g) : ParseIP(EntriesOf(g)[i]) = NilIP}

\* entry i of g's chain is no address and every entry to its right is
\* trusted by the configuration
StopsAtMalformed(g, i) ==
  /\ i \in MalformedAt(g)
  /\ \A j \in DOMAIN EntriesOf(g) :
       j > i => Trusts(Served(g).trusted, EntriesOf(g)[j])

\* C18 as stated: in recursive mode, for every configuration, the one
\* without ranges included, when an entry is no address and every entry to
\* its right is trusted, realIPFromXFF returns that entry.
C18_AsStated ==
  \A g \in Procs :
    (XFFReturned(g) /\ Served(g).recursive) =>
      \A i \in DOMAIN EntriesOf(g) :
        StopsAtMalformed(g, i) => loc[g].cand = EntriesOf(g)[i]

\* C18, amended: the same for every configuration with at least one range:
\* the entry that is no address is not trusted, the loop stops at it and
\* returns it, trimmed.
C18_MalformedEntryReturnedWithRanges ==
  \A g \in Procs :
    (XFFReturned(g) /\ Served(g).recursive /\ Served(g).trusted # <<>>) =>
      \A i \in DOMAIN EntriesOf(g) :
        StopsAtMalformed(g, i) =>
          /\ loc[g].cand = EntriesOf(g)[i]
          /\ loc[g].i = i
          /\ ~loc[g].result

\* C18's case: the chain "bogus, 192.168.0.1" with 192.168.0.0/16 trusted:
\* the walk passed the trusted entry and returned the malformed one
C18_Witness ==
  \E g \in Procs :
    /\ XFFReturned(g) /\ Served(g).recursive /\ Served(g).trusted # <<>>
    /\ ChainOf(g) = Join(<<AddrBogus, Addr192>>)
    /\ StopsAtMalformed(g, 1)
    /\ loc[g].cand = AddrBogus

\* the peer address string of g2's request is that of g1's with a port
SameHostWithPort(g1, g2) ==
  /\ IndexOf(req[g1].remoteAddr, ":") = 0
  /\ req[g2].remoteAddr = req[g1].remoteAddr \o <<":", "8", "0">>

\* C19: two requests to one Handler with the same headers, whose peer
\* address strings are a host H without a port and the same H with a port,
\* are classified alike (trusted or not) and show the next handler the same
\* destination-header value.
C19_PortlessPeerResolvedAlike ==
  \A g1, g2 \in Procs :
    ( /\ req[g1].h = req[g2].h /\ req[g1].header = req[g2].header
      /\ InFlight(g1) /\ InFlight(g2) /\ SameHostWithPort(g1, g2) ) =>
      /\ (pc[g1] = "peer" /\ pc[g2] = "peer") => loc[g1].result = loc[g2].result
      /\ (pc[g1] = "done" /\ pc[g2] = "done") => obs[g1].dst = obs[g2].dst

(***************************************************************************)
(* The concurrent specification with a fair scheduler: a goroutine that    *)
(* can take a step of ServeHTTP takes it, and a goroutine that waits for   *)
(* the lock gets it if it is free again and again (sync.RWMutex lets       *)
(* neither a writer nor a reader starve).                                  *)
(***************************************************************************)
PairProcs == {1, 2}

\* a step of ServeHTTP that waits for nothing
Advance(g) ==
  \/ TrustedEnter(g) \/ CacheRead(g) \/ CacheRUnlock(g) \/ ScanRange(g)
  \/ CacheWrite(g) \/ CacheUnlock(g)
  \/ ServeUntrusted(g) \/ ServeTrusted(g) \/ XFFSplit(g) \/ XFFLoop(g)
  \/ XFFChecked(g) \/ ServeFallback(g) \/ ServeNext(g)

FairPair ==
  \A g \in PairProcs :
    /\ WF_vars(Advance(g))
    /\ SF_vars(CacheRLock(g))
    /\ SF_vars(CacheLock(g))

\* the requests of the fair specification: one forwarded chain, from the
\* loopback peer with and without a port
LiveHeaders == {OneHeader(CanonXFF, Join(<<Addr1111, Addr192>>))}

NextLive ==
  \/ returned = {} /\ SourceHeader(NameXFF)
  \/ \E trusted \in OnceRanges :
       /\ returned = {}
       /\ TrustedOf(builder.h) = <<>>
       /\ TrustedIP(trusted)
  \/ returned = {} /\ Recursive(TRUE)
  \/ returned = {} /\ Build
  \/ \E h \in returned : Wrap(h, "n1")
  \/ StartServing
  \/ \E g \in Procs, h \in returned, remoteAddr \in PairRemoteAddrs,
        header \in LiveHeaders :
       ServeBegin(g, h, remoteAddr, header)
  \/ \E g \in Procs : TrustedEnter(g)
  \/ \E g \in Procs : CacheRLock(g)
  \/ \E g \in Procs : CacheRead(g)
  \/ \E g \in Procs : CacheRUnlock(g)
  \/ \E g \in Procs : ScanRange(g)
  \/ \E g \in Procs : CacheLock(g)
  \/ \E g \in Procs : CacheWrite(g)
  \/ \E g \in Procs : CacheUnlock(g)
  \/ \E g \in Procs : ServeUntrusted(g)
  \/ \E g \in Procs : ServeTrusted(g)
  \/ \E g \in Procs : XFFSplit(g)
  \/ \E g \in Procs : XFFLoop(g)
  \/ \E g \in Procs : XFFChecked(g)
  \/ \E g \in Procs : ServeFallback(g)
  \/ \E g \in Procs : ServeNext(g)
  \/ \E g \in Procs : ServeReturn(g)

SpecLiveFair == InitPair /\ [][NextLive]_vars /\ FairPair

\* goroutine g is in ServeHTTP and has not called the next handler yet
Resolving(g) == pc[g] \notin {"idle", "done", "panicked"}

\* goroutine g holds the lock of the Handler it serves, shared or exclusive
HoldsRLock(g) == InFlight(g) /\ g \in Served(g).readers
HoldsLock(g) == InFlight(g) /\ Served(g).writer = g

\* a goroutine holds the read lock only around the map read (173-175) and
\* the write lock only around the insertion (182-184): none in the scan,
\* none after trustedIP has returned; and a lock is held by goroutines only
LocksHeldBriefly ==
  /\ \A g \in Procs :
       /\ HoldsRLock(g) <=> pc[g] \in {"t_read", "t_runlock"}
       /\ HoldsLock(g) <=> pc[g] \in {"t_write", "t_unlock"}
  /\ \A h \in returned :
       /\ Deref(h).readers \subseteq {g \in Procs : InFlight(g) /\ req[g].h = h}
       /\ Deref(h).writer # 0 => Deref(h).writer \in Procs

\* goroutine g is blocked in RLock (173) or in Lock (182): every other
\* step of ServeHTTP waits for nothing
WaitsForLock(g) ==
  \/ pc[g] = "t_rlock" /\ Served(g).writer # 0
  \/ pc[g] = "t_lock" /\ (Served(g).writer # 0 \/ Served(g).readers # {})

\* while some goroutine is in ServeHTTP, one of them is not blocked
NoDeadlock ==
  (\E g \in Procs : Resolving(g)) =>
    \E g \in Procs : Resolving(g) /\ ~WaitsForLock(g)

\* C20: every trustedIP call has released each lock it took when it
\* returns, and holds none during the scan, only the write lock around the
\* insertion; no state is a deadlock; and under a fair scheduler every
\* resolution that has begun reaches the call of the next handler.
C20_LocksReleasedAndProgress ==
  /\ [](LocksHeldBriefly /\ NoDeadlock)
  /\ \A g \in PairProcs : Resolving(g) ~> pc[g] = "done"

\* C20's case: a goroutine waits for the write lock while the other one is
\* reading the map
C20_Witness ==
  /\ pc[1] = "t_lock" /\ pc[2] = "t_read" /\ HoldsRLock(2)
  /\ req[1].h = req[2].h
=============================================================================
